---------------------------- MODULE Spec2Model ----------------------------
(***************************************************************************)
(* Model of task-maker-rust: the execution DAG builder and its validator   *)
(* check_dag (src/src/execution/dag.rs) and the executor client            *)
(* (src/src/executor/client.rs).                                           *)
(***************************************************************************)
EXTENDS Integers, Sequences, FiniteSets, TLC

\* ------------------------------------------------------------------ bounds
NumExecs == 2
NumFiles == 2
MaxDeps == 2
NumCallbacks == 2
MaxLimit == 2
MaxBuildCalls == 3
MaxMessages == 3
MaxFileLen == 2

ExecutionUuid == 1..NumExecs
FileUuid == 1..NumFiles

\* ----------------------------------------------------------------- helpers
EmptyMap == [x \in {} |-> x]

\* HashMap::insert: the value of an existing key is replaced
MapInsert(m, k, v) == [x \in (DOMAIN m) \cup {k} |-> IF x = k THEN v ELSE m[x]]

SeqsUpTo(S, n) == UNION {[1..k -> S] : k \in 0..n}

Range(s) == {s[i] : i \in DOMAIN s}

\* An execution as check_dag sees it: dependencies() is a list (a file may be
\* listed several times), outputs() a set; the uuid is the key in the map and
\* stands for the description too.
Execution == [deps : SeqsUpTo(FileUuid, MaxDeps), outs : SUBSET FileUuid]

\* Execution::dependencies()
ExecDependencies(exec) == exec.deps

\* Execution::outputs()
ExecOutputs(exec) == exec.outs

\* DAGError and Ok(()), as one record shape
DAGResult(variant, uuid, description) ==
    [variant |-> variant, uuid |-> uuid, description |-> description]

NoResult == DAGResult("none", 0, 0)
OkResult == DAGResult("Ok", 0, 0)
MissingFile(uuid, description) == DAGResult("MissingFile", uuid, description)
MissingExecution(uuid) == DAGResult("MissingExecution", uuid, 0)
CycleDetected(description) == DAGResult("CycleDetected", 0, description)
DuplicateExecutionUUID(uuid) == DAGResult("DuplicateExecutionUUID", uuid, 0)
DuplicateFileUUID(uuid) == DAGResult("DuplicateFileUUID", uuid, 0)

\* ------------------------------------------------------------------- state
VARIABLES
    dag,                 \* ExecutionDAG.data: [provided_files, executions]
    execution_callbacks, \* ExecutionDAG.execution_callbacks
    file_callbacks,      \* ExecutionDAG.file_callbacks
    dup_add,             \* history: add_execution was called with a uuid already in the map
    pc,                  \* position: building the DAG, inside check_dag, inside evaluate
    callbacks,           \* check_dag's parameter: [executions, files]
    todo,                \* what the running for loop has still to visit
    dependencies,        \* check_dag local: file -> list of the executions that read it
    num_dependencies,    \* check_dag local: execution -> pending dependencies
    known_files,         \* check_dag local
    ready_execs,         \* check_dag local (VecDeque)
    ready_files,         \* check_dag local (VecDeque)
    pushes,              \* history: how many times each execution entered ready_execs
    result,              \* what check_dag returned
    first,               \* history: what the previous call of check_dag on this input returned
    built,               \* history: builder calls made before evaluate
    sent,                \* what the client wrote to `sender`, in order
    received,            \* history: how many times deserialize_from returned
    calls,               \* history: how many times each callback of each execution was called
    delivered,           \* history: the arguments the get_content callbacks were called with
    asked,               \* history: the uuids of the AskFile messages the client answered
    last,                \* history: what deserialize_from returned last
    stream,              \* channel: the frames of a file stream the client has not read yet
    read_frame,          \* history: the kind of frame the last deserialize_from consumed
    eval_result,         \* what evaluate returned
    ready,               \* scheduler: queue of the executions with no pending dependency
    pending_deps,        \* scheduler: execution -> pending dependencies
    file_key,            \* scheduler: the files that are available (their key is known)
    workers,             \* scheduler: worker -> Idle or the execution it runs
    skipped,             \* scheduler: the executions marked skipped
    completed,           \* scheduler: execution -> status of its WorkerResult
    events,              \* what the coordinator sent to the client, in order
    server_url,          \* connect_to_remote_server's parameter
    resolved,            \* environment: what the resolution and the attempts will give
    url,                 \* connect_to_remote_server local: the parsed Url
    server_addrs,        \* connect_to_remote_server local: the addresses still to try
    password,            \* connect_to_remote_server local
    err,                 \* connect_to_remote_server local: the last error recorded
    attempts,            \* history: the addresses a connection was attempted to, in order
    connect_result       \* what connect_to_remote_server returned

dagVars == <<dag, execution_callbacks, file_callbacks, dup_add>>
checkVars == <<callbacks, todo, dependencies, num_dependencies, known_files,
               ready_execs, ready_files, pushes, result>>
clientVars == <<built, sent, received, calls, delivered, asked, last, stream,
                read_frame, eval_result>>
schedVars == <<ready, pending_deps, file_key, workers, skipped, completed, events>>
remoteVars == <<server_url, resolved, url, server_addrs, password, err, attempts,
                connect_result>>
vars == <<dag, execution_callbacks, file_callbacks, dup_add, pc, callbacks, todo,
          dependencies, num_dependencies, known_files, ready_execs, ready_files,
          pushes, result, first, built, sent, received, calls, delivered,
          asked, last, stream, read_frame, eval_result, ready, pending_deps, file_key, workers, skipped,
          completed, events, server_url, resolved, url, server_addrs, password, err,
          attempts, connect_result>>

\* ExecutionCallbacks::default(), FileCallbacks::default(): 0 is None
NoCallback == 0
DefaultExecutionCallbacks ==
    [on_start |-> NoCallback, on_done |-> NoCallback, on_skip |-> NoCallback]
DefaultFileCallbacks == [write_to |-> FALSE, get_content |-> NoCallback]

\* a worker that runs nothing
Idle == 0

\* no Url, no error, no result yet
Nothing == [kind |-> "none"]

\* the scheduler before a DAG is submitted
SchedIdle ==
    /\ ready = <<>>
    /\ pending_deps = EmptyMap
    /\ file_key = {}
    /\ workers = EmptyMap
    /\ skipped = {}
    /\ completed = EmptyMap
    /\ events = <<>>

\* connect_to_remote_server not called
NotConnecting ==
    /\ server_url = Nothing
    /\ resolved = Nothing
    /\ url = Nothing
    /\ server_addrs = <<>>
    /\ password = Nothing
    /\ err = Nothing
    /\ attempts = <<>>
    /\ connect_result = Nothing

\* ExecutionDAG::new(), and check_dag not yet called
Init ==
    /\ dag = [provided_files |-> {}, executions |-> EmptyMap]
    /\ execution_callbacks = EmptyMap
    /\ file_callbacks = EmptyMap
    /\ dup_add = FALSE
    /\ pc = "build"
    /\ callbacks = [executions |-> {}, files |-> {}]
    /\ todo = {}
    /\ dependencies = EmptyMap
    /\ num_dependencies = EmptyMap
    /\ known_files = {}
    /\ ready_execs = <<>>
    /\ ready_files = <<>>
    /\ pushes = [e \in ExecutionUuid |-> 0]
    /\ result = NoResult
    /\ first = "none"
    /\ built = 0
    /\ sent = <<>>
    /\ received = 0
    /\ calls = [e \in ExecutionUuid |-> [on_start |-> 0, on_done |-> 0, on_skip |-> 0]]
    /\ delivered = <<>>
    /\ asked = <<>>
    /\ last = "none"
    /\ stream = <<>>
    /\ read_frame = "None"
    /\ eval_result = "none"
    /\ SchedIdle
    /\ NotConnecting

\* ----------------------------------------------------------- the builder
\* The builder's operations say what they do to the ExecutionDAG; the
\* next-state relations below say when they are called.

\* ExecutionDAG::provide_file
provide_file(file) ==
    /\ dag' = [dag EXCEPT !.provided_files = @ \cup {file}]
    /\ UNCHANGED <<execution_callbacks, file_callbacks, dup_add>>

\* a variant of add_execution: the execution gets an entry, without callback,
\* in the callback map
add_execution_Subscribed(uuid, execution) ==
    /\ dag' = [dag EXCEPT !.executions = MapInsert(@, uuid, execution)]
    /\ dup_add' = (dup_add \/ uuid \in DOMAIN dag.executions)
    /\ execution_callbacks' =
           IF uuid \in DOMAIN execution_callbacks THEN execution_callbacks
           ELSE MapInsert(execution_callbacks, uuid, DefaultExecutionCallbacks)
    /\ UNCHANGED file_callbacks

\* ExecutionDAG::add_execution
add_execution(uuid, execution) ==
    /\ dag' = [dag EXCEPT !.executions = MapInsert(@, uuid, execution)]
    /\ dup_add' = (dup_add \/ uuid \in DOMAIN dag.executions)
    /\ UNCHANGED <<execution_callbacks, file_callbacks>>

\* ------------------------------------------------------------- check_dag
\* the closure add_dependency
add_dependency(deps_map, file, exec) ==
    IF file \notin DOMAIN deps_map
    THEN MapInsert(deps_map, file, <<exec>>)
    ELSE [deps_map EXCEPT ![file] = Append(@, exec)]

\* for dep in deps.into_iter() { add_dependency(dep, exec_uuid) }
RECURSIVE AddDependencies(_, _, _)
AddDependencies(deps_map, deps, exec) ==
    IF deps = <<>> THEN deps_map
    ELSE AddDependencies(add_dependency(deps_map, Head(deps), exec), Tail(deps), exec)

\* a variant of DepCount: the distinct dependencies are counted
DepCount_Distinct(deps) == Cardinality(Range(deps))

\* let count = deps.len()
DepCount(deps) == Len(deps)

\* return Err(..) / Ok(()): the locals are dropped
Return(r) ==
    /\ pc' = "done"
    /\ result' = r
    /\ UNCHANGED <<callbacks, todo, dependencies, num_dependencies, known_files,
                   ready_execs, ready_files, pushes>>
    /\ UNCHANGED <<dagVars, first, clientVars, schedVars, remoteVars>>

\* a failed expect() or assert_ne!()
Panic ==
    /\ pc' = "panic"
    /\ UNCHANGED checkVars
    /\ UNCHANGED <<dagVars, first, clientVars, schedVars, remoteVars>>

\* the call check_dag(dag, callbacks), up to the first for loop
CheckDagCall(cb) ==
    /\ pc = "build"
    /\ pc' = "loop_execs"
    /\ callbacks' = cb
    /\ todo' = DOMAIN dag.executions
    /\ UNCHANGED <<dependencies, num_dependencies, known_files, ready_execs,
                   ready_files, pushes, result>>
    /\ UNCHANGED <<dagVars, first, clientVars, schedVars, remoteVars>>

\* a variant of InsertFails: the value insert returns is ignored
InsertFails_Never(files, uuid) == FALSE

\* known_files.insert(uuid) returns false: the uuid was in the set
InsertFails(files, uuid) == uuid \in files

\* one iteration of: for exec_uuid in dag.executions.keys()
LoopExecs(exec_uuid) ==
    /\ pc = "loop_execs"
    /\ exec_uuid \in todo
    /\ IF exec_uuid \notin DOMAIN dag.executions THEN Panic
       ELSE LET exec == dag.executions[exec_uuid]
                deps == ExecDependencies(exec)
                count == DepCount(deps)
                dup_outs == {out \in ExecOutputs(exec) : InsertFails(known_files, out)}
            IN IF dup_outs # {}
               THEN \E out \in dup_outs : Return(DuplicateFileUUID(out))
               ELSE IF exec_uuid \in DOMAIN num_dependencies
               THEN Return(DuplicateExecutionUUID(exec_uuid))
               ELSE /\ dependencies' = AddDependencies(dependencies, deps, exec_uuid)
                    /\ known_files' = known_files \cup ExecOutputs(exec)
                    /\ num_dependencies' = MapInsert(num_dependencies, exec_uuid, count)
                    /\ ready_execs' = IF count = 0 THEN Append(ready_execs, exec_uuid)
                                      ELSE ready_execs
                    /\ pushes' = IF count = 0 THEN [pushes EXCEPT ![exec_uuid] = @ + 1]
                                 ELSE pushes
                    /\ todo' = todo \ {exec_uuid}
                    /\ UNCHANGED <<pc, callbacks, ready_files, result>>
                    /\ UNCHANGED <<dagVars, first, clientVars, schedVars, remoteVars>>

\* the first loop is over, the second begins
LoopExecsEnd ==
    /\ pc = "loop_execs"
    /\ todo = {}
    /\ pc' = "loop_provided"
    /\ todo' = dag.provided_files
    /\ UNCHANGED <<callbacks, dependencies, num_dependencies, known_files,
                   ready_execs, ready_files, pushes, result>>
    /\ UNCHANGED <<dagVars, first, clientVars, schedVars, remoteVars>>

\* one iteration of: for uuid in dag.provided_files.keys()
LoopProvided(uuid) ==
    /\ pc = "loop_provided"
    /\ uuid \in todo
    /\ IF InsertFails(known_files, uuid)
       THEN Return(DuplicateFileUUID(uuid))
       ELSE /\ ready_files' = Append(ready_files, uuid)
            /\ known_files' = known_files \cup {uuid}
            /\ todo' = todo \ {uuid}
            /\ UNCHANGED <<pc, callbacks, dependencies, num_dependencies,
                           ready_execs, pushes, result>>
            /\ UNCHANGED <<dagVars, first, clientVars, schedVars, remoteVars>>

\* where control goes when a drain of ready_files ends or continues: the next
\* file, else the drain of ready_execs, else (both queues empty) out of the while
AfterFiles(execs, files) ==
    IF files # <<>> THEN "drain_files"
    ELSE IF execs # <<>> THEN "drain_execs"
    ELSE "classify"

\* the same inside the drain of ready_execs: the next execution, else the while
\* test and the drain of ready_files
AfterExecs(execs, files) ==
    IF execs # <<>> THEN "drain_execs"
    ELSE IF files # <<>> THEN "drain_files"
    ELSE "classify"

\* the second loop is over: the test of the while loop
LoopProvidedEnd ==
    /\ pc = "loop_provided"
    /\ todo = {}
    /\ pc' = AfterFiles(ready_execs, ready_files)
    /\ UNCHANGED <<callbacks, todo, dependencies, num_dependencies, known_files,
                   ready_execs, ready_files, pushes, result>>
    /\ UNCHANGED <<dagVars, first, clientVars, schedVars, remoteVars>>

\* for exec in dependencies.get(&file).unwrap().iter(): the pending count of each
\* reader is decremented, a reader that reaches zero is pushed on ready_execs
RECURSIVE NotifyReaders(_, _, _, _)
NotifyReaders(readers, nd, re, pu) ==
    IF readers = <<>>
    THEN [num_dependencies |-> nd, ready_execs |-> re, pushes |-> pu, panic |-> FALSE]
    ELSE LET exec == Head(readers) IN
         IF exec \notin DOMAIN nd \/ nd[exec] = 0
         THEN [num_dependencies |-> nd, ready_execs |-> re, pushes |-> pu, panic |-> TRUE]
         ELSE LET num_deps == nd[exec] - 1 IN
              NotifyReaders(Tail(readers),
                            [nd EXCEPT ![exec] = num_deps],
                            IF num_deps = 0 THEN Append(re, exec) ELSE re,
                            IF num_deps = 0 THEN [pu EXCEPT ![exec] = @ + 1] ELSE pu)

\* one iteration of: for file in ready_files.drain(..)
DrainFile ==
    /\ pc = "drain_files"
    /\ ready_files # <<>>
    /\ LET file == Head(ready_files) IN
       IF file \notin DOMAIN dependencies
       THEN /\ ready_files' = Tail(ready_files)
            /\ pc' = AfterFiles(ready_execs, ready_files')
            /\ UNCHANGED <<callbacks, todo, dependencies, num_dependencies,
                           known_files, ready_execs, pushes, result>>
            /\ UNCHANGED <<dagVars, first, clientVars, schedVars, remoteVars>>
       ELSE LET r == NotifyReaders(dependencies[file], num_dependencies,
                                   ready_execs, pushes)
            IN IF r.panic THEN Panic
               ELSE /\ ready_files' = Tail(ready_files)
                    /\ num_dependencies' = r.num_dependencies
                    /\ ready_execs' = r.ready_execs
                    /\ pushes' = r.pushes
                    /\ pc' = AfterFiles(ready_execs', ready_files')
                    /\ UNCHANGED <<callbacks, todo, dependencies, known_files, result>>
                    /\ UNCHANGED <<dagVars, first, clientVars, schedVars, remoteVars>>

\* a variant of ReadyOutputs: a drained execution appends nothing
ReadyOutputs_None(exec) == {}

\* the files a drained execution appends to ready_files
ReadyOutputs(exec) == ExecOutputs(exec)

\* the orders in which a set can be iterated
Orders(S) == {s \in [1..Cardinality(S) -> S] : Range(s) = S}

\* one iteration of: for exec_uuid in ready_execs.drain(..)
DrainExec ==
    /\ pc = "drain_execs"
    /\ ready_execs # <<>>
    /\ LET exec_uuid == Head(ready_execs) IN
       IF exec_uuid \notin DOMAIN dag.executions THEN Panic
       ELSE \E outs \in Orders(ReadyOutputs(dag.executions[exec_uuid])) :
            /\ ready_files' = ready_files \o outs
            /\ ready_execs' = Tail(ready_execs)
            /\ pc' = AfterExecs(ready_execs', ready_files')
            /\ UNCHANGED <<callbacks, todo, dependencies, num_dependencies,
                           known_files, pushes, result>>
            /\ UNCHANGED <<dagVars, first, clientVars, schedVars, remoteVars>>

\* the executions at which the search loop can stop: the first entry of
\* num_dependencies, in the map's iteration order, whose count is not 0
Unreached(nd) == {exec_uuid \in DOMAIN nd : nd[exec_uuid] # 0}

\* a variant of UnknownDeps: the test of known_files is inverted
UnknownDeps_Inverted(exec, files) ==
    SelectSeq(ExecDependencies(exec), LAMBDA dep : dep \in files)

\* the dependencies of exec that are not in known_files, in order
UnknownDeps(exec, files) == SelectSeq(ExecDependencies(exec), LAMBDA dep : dep \notin files)

\* for (exec_uuid, count) in num_dependencies.iter(): search for unreachable
\* executions / cycles
Classify ==
    /\ pc = "classify"
    /\ IF Unreached(num_dependencies) = {}
       THEN /\ pc' = "check_files"
            /\ UNCHANGED checkVars
            /\ UNCHANGED <<dagVars, first, clientVars, schedVars, remoteVars>>
       ELSE \E exec_uuid \in Unreached(num_dependencies) :
            IF exec_uuid \notin DOMAIN dag.executions THEN Panic
            ELSE LET missing == UnknownDeps(dag.executions[exec_uuid], known_files) IN
                 IF missing # <<>>
                 THEN Return(MissingFile(Head(missing), exec_uuid))
                 ELSE Return(CycleDetected(exec_uuid))

\* a variant of UnknownFiles: the subscribed files are not checked
UnknownFiles_None(cb, files) == {}

\* the subscribed files that are not known
UnknownFiles(cb, files) == cb.files \ files

\* for file in callbacks.files.iter()
CheckFileCallbacks ==
    /\ pc = "check_files"
    /\ IF UnknownFiles(callbacks, known_files) = {}
       THEN /\ pc' = "check_execs"
            /\ UNCHANGED checkVars
            /\ UNCHANGED <<dagVars, first, clientVars, schedVars, remoteVars>>
       ELSE \E file \in UnknownFiles(callbacks, known_files) :
            Return(MissingFile(file, 0))

\* a variant of UnknownExecs: the subscribed executions are not checked
UnknownExecs_None(cb, nd) == {}

\* the subscribed executions that are not known
UnknownExecs(cb, nd) == cb.executions \ DOMAIN nd

\* for exec in callbacks.executions.iter(), and the final Ok(())
CheckExecCallbacks ==
    /\ pc = "check_execs"
    /\ IF UnknownExecs(callbacks, num_dependencies) = {}
       THEN Return(OkResult)
       ELSE \E exec \in UnknownExecs(callbacks, num_dependencies) :
            Return(MissingExecution(exec))

\* the subscription sets check_dag can be given
Callbacks == [executions : SUBSET ExecutionUuid, files : SUBSET FileUuid]

\* the DAG check_dag is given is built by any calls of the builder
BuildNext ==
    /\ pc = "build"
    /\ \/ \E file \in FileUuid : provide_file(file)
       \/ \E uuid \in ExecutionUuid, execution \in Execution :
              add_execution(uuid, execution)
    /\ UNCHANGED <<pc, checkVars, first, schedVars, remoteVars, clientVars, schedVars, remoteVars>>

CheckDagNext ==
    \/ \E cb \in Callbacks : CheckDagCall(cb)
    \/ \E exec_uuid \in ExecutionUuid : LoopExecs(exec_uuid)
    \/ LoopExecsEnd
    \/ \E uuid \in FileUuid : LoopProvided(uuid)
    \/ LoopProvidedEnd
    \/ DrainFile
    \/ DrainExec
    \/ Classify
    \/ CheckFileCallbacks
    \/ CheckExecCallbacks

Next == BuildNext \/ CheckDagNext

Spec == Init /\ [][Next]_vars

\* check_dag always goes on once it is called (the caller waits for its result)
FairSpec == Init /\ [][Next]_vars /\ WF_vars(CheckDagNext)

\* ------------------------------------------- check_dag called twice
\* A second call of check_dag on the same DAG data and subscription set: the
\* locals are fresh, the answer of the first call is remembered.
CheckDagAgain ==
    /\ pc = "done"
    /\ first = "none"
    /\ first' = result.variant
    /\ pc' = "loop_execs"
    /\ todo' = DOMAIN dag.executions
    /\ dependencies' = EmptyMap
    /\ num_dependencies' = EmptyMap
    /\ known_files' = {}
    /\ ready_execs' = <<>>
    /\ ready_files' = <<>>
    /\ pushes' = [e \in ExecutionUuid |-> 0]
    /\ result' = NoResult
    /\ UNCHANGED <<callbacks, dagVars, clientVars, schedVars, remoteVars>>

TwiceSpec == Init /\ [][Next \/ CheckDagAgain]_vars

\* ------------------------------------------------------ ExecutorClient
\* the executions the client's DAG is built from: the client never looks
\* inside an execution
ClientExecution == {[deps |-> <<>>, outs |-> {}]}

CallbackId == 1..NumCallbacks

\* AddExecutionWrapper::ensure_execution_callback
ensure_execution_callback(cbs, uuid) ==
    IF uuid \notin DOMAIN cbs THEN MapInsert(cbs, uuid, DefaultExecutionCallbacks)
    ELSE cbs

\* AddExecutionWrapper::on_start, on the handle add_execution returned for uuid
on_start(uuid, callback) ==
    /\ uuid \in DOMAIN dag.executions
    /\ execution_callbacks' =
           [ensure_execution_callback(execution_callbacks, uuid)
               EXCEPT ![uuid].on_start = callback]
    /\ UNCHANGED <<dag, file_callbacks, dup_add>>

\* a variant of on_done: the entry of the execution is made anew, which drops
\* the callbacks of the other kinds
on_done_Reset(uuid, callback) ==
    /\ uuid \in DOMAIN dag.executions
    /\ execution_callbacks' =
           MapInsert(execution_callbacks, uuid,
                     [DefaultExecutionCallbacks EXCEPT !.on_done = callback])
    /\ UNCHANGED <<dag, file_callbacks, dup_add>>

\* AddExecutionWrapper::on_done
on_done(uuid, callback) ==
    /\ uuid \in DOMAIN dag.executions
    /\ execution_callbacks' =
           [ensure_execution_callback(execution_callbacks, uuid)
               EXCEPT ![uuid].on_done = callback]
    /\ UNCHANGED <<dag, file_callbacks, dup_add>>

\* AddExecutionWrapper::on_skip
on_skip(uuid, callback) ==
    /\ uuid \in DOMAIN dag.executions
    /\ execution_callbacks' =
           [ensure_execution_callback(execution_callbacks, uuid)
               EXCEPT ![uuid].on_skip = callback]
    /\ UNCHANGED <<dag, file_callbacks, dup_add>>

\* ExecutionDAG::file_callback
file_callback(cbs, file) ==
    IF file \notin DOMAIN cbs THEN MapInsert(cbs, file, DefaultFileCallbacks)
    ELSE cbs

\* ExecutionDAG::write_file_to
write_file_to(file) ==
    /\ file_callbacks' = [file_callback(file_callbacks, file) EXCEPT ![file].write_to = TRUE]
    /\ UNCHANGED <<dag, execution_callbacks, dup_add>>

\* ExecutionDAG::get_file_content: the callback is known by its limit
get_file_content(file, limit) ==
    /\ file_callbacks' =
           [file_callback(file_callbacks, file) EXCEPT ![file].get_content = limit]
    /\ UNCHANGED <<dag, execution_callbacks, dup_add>>

\* the client builds its DAG with at most MaxBuildCalls calls
ClientBuildNext ==
    /\ pc = "build"
    /\ built < MaxBuildCalls
    /\ built' = built + 1
    /\ \/ \E file \in FileUuid : provide_file(file)
       \/ \E uuid \in ExecutionUuid, execution \in ClientExecution :
              add_execution(uuid, execution)
       \/ \E uuid \in ExecutionUuid, callback \in CallbackId : on_start(uuid, callback)
       \/ \E uuid \in ExecutionUuid, callback \in CallbackId : on_done(uuid, callback)
       \/ \E uuid \in ExecutionUuid, callback \in CallbackId : on_skip(uuid, callback)
       \/ \E file \in FileUuid : write_file_to(file)
       \/ \E file \in FileUuid, limit \in 1..MaxLimit : get_file_content(file, limit)
    /\ UNCHANGED <<pc, checkVars, first, schedVars, remoteVars, sent, received, calls, delivered, asked, last,
                   stream, read_frame, eval_result>>

\* ExecutorClientMessage, as one record shape
NoDagData == [provided_files |-> {}, executions |-> EmptyMap]
NoSubscriptions == [executions |-> {}, files |-> {}]
\* a variant of EvaluateMsg: the subscription set is left empty
EvaluateMsg_NoSubscriptions(data, cbs) ==
    [type |-> "Evaluate", uuid |-> 0, key |-> 0, dag |-> data,
     callbacks |-> NoSubscriptions]

EvaluateMsg(data, cbs) ==
    [type |-> "Evaluate", uuid |-> 0, key |-> 0, dag |-> data, callbacks |-> cbs]
ProvideFileMsg(uuid, key) ==
    [type |-> "ProvideFile", uuid |-> uuid, key |-> key, dag |-> NoDagData,
     callbacks |-> NoSubscriptions]
\* what ChannelFileSender::send writes: the bytes of the file at uuid's local path
FileBytes(uuid) ==
    [type |-> "FileBytes", uuid |-> uuid, key |-> 0, dag |-> NoDagData,
     callbacks |-> NoSubscriptions]

\* FileStoreKey::from_file(path) for the local path of the provided file uuid
FileStoreKeyOf(uuid) == uuid

\* evaluate returns
EvalReturn(r) ==
    /\ pc' = "returned"
    /\ eval_result' = r

\* the head of evaluate: the subscription sets are the keys of the callback
\* maps, then Evaluate is sent; serialize_into may fail
EvaluateCall ==
    /\ pc = "build"
    /\ LET dag_callbacks == [executions |-> DOMAIN execution_callbacks,
                             files |-> DOMAIN file_callbacks]
       IN \E io_ok \in BOOLEAN :
            IF io_ok
            THEN /\ sent' = Append(sent, EvaluateMsg(dag, dag_callbacks))
                 /\ pc' = "evaluate"
                 /\ UNCHANGED eval_result
            ELSE /\ EvalReturn("Err")
                 /\ UNCHANGED sent
    /\ UNCHANGED <<dagVars, checkVars, first, schedVars, remoteVars, built, received, calls, delivered,
                   asked, last, stream, read_frame>>

\* the frames that carry `file` after a ProvideFile message: one Chunk for
\* each byte, then ChunkEnd
ChunkFrames(file) == [i \in 1..Len(file) |-> "Chunk"] \o <<"ChunkEnd">>

\* the frame the next deserialize_from reads: the oldest unread frame of the
\* channel, a server message when no frame of a file stream is left
NextFrame(frames) == IF frames = <<>> THEN "Message" ELSE Head(frames)

\* deserialize_from returned once more, with a message or an error of kind
\* msg; it consumed one frame of the channel, and the server sends `follows`
\* right behind a message. What a frame of a file stream decodes to as an
\* ExecutorServerMessage is not fixed: every kind of msg is possible.
RecvFrame(msg, follows) ==
    /\ pc = "evaluate"
    /\ received < MaxMessages
    /\ received' = received + 1
    /\ last' = msg
    /\ read_frame' = NextFrame(stream)
    /\ stream' = IF stream = <<>> THEN follows ELSE Tail(stream)

Receive(msg) == RecvFrame(msg, <<>>)

\* a variant of AskFileReply: the bytes are sent before the ProvideFile message
AskFileReply_BytesFirst(uuid) ==
    <<FileBytes(uuid), ProvideFileMsg(uuid, FileStoreKeyOf(uuid))>>

\* what the client sends for AskFile(uuid): ProvideFile(uuid, key), then the
\* bytes of the file
AskFileReply(uuid) ==
    <<ProvideFileMsg(uuid, FileStoreKeyOf(uuid)), FileBytes(uuid)>>

\* Ok(ExecutorServerMessage::AskFile(uuid))
RecvAskFile(uuid) ==
    /\ Receive("AskFile")
    /\ IF uuid \notin dag.provided_files
       THEN /\ pc' = "panic"
            /\ UNCHANGED <<sent, asked, eval_result>>
       ELSE /\ asked' = Append(asked, uuid)
            /\ \E io \in {"ok", "fail_key_or_message", "fail_file"} :
               CASE io = "ok" ->
                       /\ sent' = sent \o AskFileReply(uuid)
                       /\ UNCHANGED <<pc, eval_result>>
                 [] io = "fail_key_or_message" ->
                       /\ EvalReturn("Err")
                       /\ UNCHANGED sent
                 [] io = "fail_file" ->
                       /\ sent' = Append(sent, Head(AskFileReply(uuid)))
                       /\ EvalReturn("Err")
    /\ UNCHANGED <<dagVars, checkVars, first, schedVars, remoteVars, built, calls, delivered>>

\* the bytes a file the server delivers can hold
Byte == {1, 2}
FileContents == SeqsUpTo(Byte, MaxFileLen)

\* the placeholder buffer the get_content callback is given
PlaceholderContent == <<1, 2, 3, 42>>

\* the buffer get_content is called with, for a callback registered with
\* `limit` when the server delivers `file`
GetContentArgument(limit, file) == PlaceholderContent

\* Ok(ExecutorServerMessage::ProvideFile(uuid)), the server delivering `file`
RecvProvideFile(uuid, file) ==
    /\ RecvFrame("ProvideFile", ChunkFrames(file))
    /\ delivered' =
           IF uuid \in DOMAIN file_callbacks
              /\ file_callbacks[uuid].get_content # NoCallback
           THEN LET limit == file_callbacks[uuid].get_content
                IN Append(delivered, [uuid |-> uuid, limit |-> limit, file |-> file,
                                      content |-> GetContentArgument(limit, file)])
           ELSE delivered
    /\ UNCHANGED <<dagVars, checkVars, first, schedVars, remoteVars, pc, built, sent, calls, asked, eval_result>>

\* callback(..) through the reference to the stored callback: the callback
\* stays in the map
CallCallback(count) == count + 1

\* Ok(ExecutorServerMessage::NotifyStart(uuid, worker))
RecvNotifyStart(uuid) ==
    /\ Receive("NotifyStart")
    /\ calls' =
           IF uuid \in DOMAIN execution_callbacks
              /\ execution_callbacks[uuid].on_start # NoCallback
           THEN [calls EXCEPT ![uuid].on_start = CallCallback(@)]
           ELSE calls
    /\ UNCHANGED <<dagVars, checkVars, first, schedVars, remoteVars, pc, built, sent, delivered, asked,
                   eval_result>>

\* Ok(ExecutorServerMessage::NotifyDone(uuid, result))
RecvNotifyDone(uuid) ==
    /\ Receive("NotifyDone")
    /\ calls' =
           IF uuid \in DOMAIN execution_callbacks
              /\ execution_callbacks[uuid].on_done # NoCallback
           THEN [calls EXCEPT ![uuid].on_done = CallCallback(@)]
           ELSE calls
    /\ UNCHANGED <<dagVars, checkVars, first, schedVars, remoteVars, pc, built, sent, delivered, asked,
                   eval_result>>

\* Ok(ExecutorServerMessage::NotifySkip(uuid))
RecvNotifySkip(uuid) ==
    /\ Receive("NotifySkip")
    /\ calls' =
           IF uuid \in DOMAIN execution_callbacks
              /\ execution_callbacks[uuid].on_skip # NoCallback
           THEN [calls EXCEPT ![uuid].on_skip = CallCallback(@)]
           ELSE calls
    /\ UNCHANGED <<dagVars, checkVars, first, schedVars, remoteVars, pc, built, sent, delivered, asked,
                   eval_result>>

\* Ok(ExecutorServerMessage::Error(error)): drop(receiver); break; Ok(())
RecvError ==
    /\ Receive("Error")
    /\ EvalReturn("Ok")
    /\ UNCHANGED <<dagVars, checkVars, first, schedVars, remoteVars, built, sent, calls, delivered, asked>>

\* Ok(ExecutorServerMessage::Status(status))
RecvStatus ==
    /\ Receive("Status")
    /\ UNCHANGED <<dagVars, checkVars, first, schedVars, remoteVars, pc, built, sent, calls, delivered, asked,
                   eval_result>>

\* Ok(ExecutorServerMessage::Done): drop(receiver); break; Ok(())
RecvDone ==
    /\ Receive("Done")
    /\ EvalReturn("Ok")
    /\ UNCHANGED <<dagVars, checkVars, first, schedVars, remoteVars, built, sent, calls, delivered, asked>>

\* Err(e) whose root cause is "receiving on a closed channel": break; Ok(());
\* no frame is read
RecvClosed ==
    /\ pc = "evaluate"
    /\ received < MaxMessages
    /\ received' = received + 1
    /\ last' = "Closed"
    /\ read_frame' = "None"
    /\ UNCHANGED stream
    /\ EvalReturn("Ok")
    /\ UNCHANGED <<dagVars, checkVars, first, schedVars, remoteVars, built, sent, calls, delivered, asked>>

\* Err(e) with any other cause: logged, the loop goes on
RecvOtherError ==
    /\ Receive("OtherError")
    /\ UNCHANGED <<dagVars, checkVars, first, schedVars, remoteVars, pc, built, sent, calls, delivered, asked,
                   eval_result>>

EvaluateNext ==
    \/ EvaluateCall
    \/ \E uuid \in FileUuid : RecvAskFile(uuid)
    \/ \E uuid \in FileUuid, file \in FileContents : RecvProvideFile(uuid, file)
    \/ \E uuid \in ExecutionUuid : RecvNotifyStart(uuid)
    \/ \E uuid \in ExecutionUuid : RecvNotifyDone(uuid)
    \/ \E uuid \in ExecutionUuid : RecvNotifySkip(uuid)
    \/ RecvError
    \/ RecvStatus
    \/ RecvDone
    \/ RecvClosed
    \/ RecvOtherError

EvaluateSpec == Init /\ [][ClientBuildNext \/ EvaluateNext]_vars

\* ------------------------------------------------- properties of a DAG
Executions(d) == DOMAIN d.executions

AllOutputs(d) == UNION {ExecOutputs(d.executions[e]) : e \in Executions(d)}

\* the files somebody produces: the client or an execution
Produced(d) == d.provided_files \cup AllOutputs(d)

NumProducers(d, f) ==
    (IF f \in d.provided_files THEN 1 ELSE 0)
    + Cardinality({e \in Executions(d) : f \in ExecOutputs(d.executions[e])})

\* every dependency of every execution is provided or is an output
DepsProduced(d) ==
    \A e \in Executions(d) : Range(ExecDependencies(d.executions[e])) \subseteq Produced(d)

\* no file has two producers
UniqueProducers(d) == \A f \in FileUuid : NumProducers(d, f) <= 1

\* execution a reads an output of execution b
ReadsFrom(d, a, b) ==
    Range(ExecDependencies(d.executions[a])) \cap ExecOutputs(d.executions[b]) # {}

\* a set of executions each of which reads from one of the set: a finite graph
\* has one exactly when it has a cycle
HasCycle(d) ==
    \E S \in (SUBSET Executions(d)) \ {{}} :
        \A a \in S : \E b \in S : ReadsFrom(d, a, b)

UnknownFileSubscribed(d, cb) == cb.files \ Produced(d) # {}
UnknownExecSubscribed(d, cb) == cb.executions \ Executions(d) # {}
SubscriptionsKnown(d, cb) ==
    ~UnknownFileSubscribed(d, cb) /\ ~UnknownExecSubscribed(d, cb)

StructurallyValid(d) == DepsProduced(d) /\ UniqueProducers(d) /\ ~HasCycle(d)
ValidDag(d, cb) == StructurallyValid(d) /\ SubscriptionsKnown(d, cb)

Returned == pc \in {"done", "panic"}
Returns(variant) == pc = "done" /\ result.variant = variant

\* ----------------------------------------------------------- Scheduler
\* The coordinator's scheduler, from section 4.4 of the specification: its
\* state, the dispatch loop and the skip propagation.
SchedExecs == 3
NumWorkers == 2

WorkerId == 1..NumWorkers

\* who produces a file: nobody, the client, or an execution
NoProducer == 0
Provided == -1

\* the DAG in which producer[f] produces the file f and deps[e] are the
\* dependencies of the execution e
DagOf(producer, deps) ==
    [provided_files |-> {f \in FileUuid : producer[f] = Provided},
     executions |-> [e \in DOMAIN deps |->
                        [deps |-> deps[e],
                         outs |-> {f \in FileUuid : producer[f] = e}]]]

\* the DAGs of n executions in which every file has at most one producer and
\* every dependency has one
ProducedDags(n) ==
    UNION {{DagOf(producer, deps) :
               deps \in [1..n -> SeqsUpTo({f \in FileUuid : producer[f] # NoProducer},
                                          MaxDeps)]} :
           producer \in [FileUuid -> {NoProducer, Provided} \cup 1..n]}

\* the DAGs of up to max executions the scheduler is given: the coordinator
\* validates on submission (invariants 1 to 3 of the data model); the
\* executions are named 1..n
SchedDags(max) == {d \in UNION {ProducedDags(n) : n \in 0..max} : ~HasCycle(d)}

\* the subscription sets that pass the validation of d: any executions, no
\* file or every file
SchedCallbacks(d) == [executions : SUBSET Executions(d), files : {{}, Produced(d)}]

\* a message of the coordinator to the client
Event(type, uuid) == [type |-> type, uuid |-> uuid]

\* the message, when the client subscribed to uuid
IfSubscribed(subscriptions, type, uuid) ==
    IF uuid \in subscriptions THEN <<Event(type, uuid)>> ELSE <<>>

\* consumers[file]: the executions that read file, once per reading
RECURSIVE Consumers(_, _, _)
Consumers(d, file, n) ==
    IF n = 0 THEN <<>>
    ELSE Consumers(d, file, n - 1)
             \o [i \in 1..Len(SelectSeq(ExecDependencies(d.executions[n]),
                                        LAMBDA dep : dep = file)) |-> n]

\* a set of uuids as a list, in increasing order
RECURSIVE Sorted(_)
Sorted(S) ==
    IF S = {} THEN <<>>
    ELSE LET m == CHOOSE x \in S : \A y \in S : x <= y
         IN <<m>> \o Sorted(S \ {m})

\* the executions of d, counted
NumExecutions(d) == Cardinality(Executions(d))

\* a DAG was submitted with its subscription set and passed the validation
SchedInit ==
    /\ dag \in SchedDags(SchedExecs)
    /\ callbacks \in SchedCallbacks(dag)
    /\ pc = "submitted"
    /\ execution_callbacks = EmptyMap
    /\ file_callbacks = EmptyMap
    /\ dup_add = FALSE
    /\ todo = {}
    /\ dependencies = EmptyMap
    /\ num_dependencies = EmptyMap
    /\ known_files = {}
    /\ ready_execs = <<>>
    /\ ready_files = <<>>
    /\ pushes = [e \in ExecutionUuid |-> 0]
    /\ result = NoResult
    /\ first = "none"
    /\ built = 0
    /\ sent = <<>>
    /\ received = 0
    /\ calls = [e \in ExecutionUuid |-> [on_start |-> 0, on_done |-> 0, on_skip |-> 0]]
    /\ delivered = <<>>
    /\ asked = <<>>
    /\ last = "none"
    /\ stream = <<>>
    /\ read_frame = "None"
    /\ eval_result = "none"
    /\ SchedIdle
    /\ NotConnecting

\* the scheduler state of a new evaluation: the provided files count as
\* satisfied, the executions that wait for nothing are ready. Maps are walked
\* in increasing uuid order here and below: SchedDags holds every naming of
\* each DAG, so that every relative order of two executions or files occurs.
Setup ==
    /\ pc = "submitted"
    /\ pc' = "scheduling"
    /\ LET pd == [e \in Executions(dag) |->
                     Len(SelectSeq(ExecDependencies(dag.executions[e]),
                                   LAMBDA dep : dep \notin dag.provided_files))]
       IN /\ pending_deps' = pd
          /\ ready' = Sorted({e \in Executions(dag) : pd[e] = 0})
    /\ workers' = [w \in WorkerId |-> Idle]
    /\ UNCHANGED <<file_key, skipped, completed, events>>
    /\ UNCHANGED <<dagVars, checkVars, first, clientVars, remoteVars>>

\* the provided inputs of exec whose key is not in the store yet, each once
RECURSIVE MissingInputs(_, _, _)
MissingInputs(deps, provided, have) ==
    IF deps = <<>> THEN <<>>
    ELSE IF Head(deps) \in provided /\ Head(deps) \notin have
         THEN <<Head(deps)>> \o MissingInputs(Tail(deps), provided, have \cup {Head(deps)})
         ELSE MissingInputs(Tail(deps), provided, have)

\* dispatch loop, steps 1 and 2: the head of ready goes to the first idle
\* worker; the provided inputs the store lacks are demanded from the client
Dispatch ==
    /\ pc = "scheduling"
    /\ ready # <<>>
    /\ \E w \in WorkerId :
        /\ workers[w] = Idle
        /\ \A v \in WorkerId : workers[v] = Idle => w <= v
        /\ LET exec_uuid == Head(ready)
               missing == MissingInputs(ExecDependencies(dag.executions[exec_uuid]),
                                        dag.provided_files, file_key)
           IN /\ ready' = Tail(ready)
              /\ workers' = [workers EXCEPT ![w] = exec_uuid]
              /\ file_key' = file_key \cup Range(missing)
              /\ events' = events
                     \o [i \in 1..Len(missing) |-> Event("AskFile", missing[i])]
                     \o IfSubscribed(callbacks.executions, "NotifyStart", exec_uuid)
    /\ UNCHANGED <<pending_deps, skipped, completed>>
    /\ UNCHANGED <<dagVars, checkVars, first, clientVars, remoteVars, pc>>

\* a variant of Runnable: an execution that was skipped is enqueued all the same
Runnable_Always(exec_uuid, sk) == TRUE

\* an execution whose count reaches zero enters ready unless it was skipped
Runnable(exec_uuid, sk) == exec_uuid \notin sk

\* for each consumer of an output: decrement pending_deps, enqueue the newly
\* ready executions
RECURSIVE DecrementConsumers(_, _, _, _)
DecrementConsumers(cons, pd, rq, sk) ==
    IF cons = <<>> THEN [pending_deps |-> pd, ready |-> rq]
    ELSE LET c == Head(cons)
             count == IF pd[c] > 0 THEN pd[c] - 1 ELSE 0
         IN DecrementConsumers(Tail(cons), [pd EXCEPT ![c] = count],
                               IF pd[c] > 0 /\ count = 0 /\ Runnable(c, sk)
                               THEN Append(rq, c) ELSE rq,
                               sk)

\* step 3, for each output FileUuid of the result
RECURSIVE DeliverOutputs(_, _, _, _)
DeliverOutputs(outs, pd, rq, sk) ==
    IF outs = <<>> THEN [pending_deps |-> pd, ready |-> rq]
    ELSE LET r == DecrementConsumers(Consumers(dag, Head(outs), NumExecutions(dag)),
                                     pd, rq, sk)
         IN DeliverOutputs(Tail(outs), r.pending_deps, r.ready, sk)

\* a variant of NewlySkipped: an execution is marked each time it is reached
NewlySkipped_Always(exec_uuid, sk) == TRUE

\* an execution reached by the propagation is marked unless it is marked already
NewlySkipped(exec_uuid, sk) == exec_uuid \notin sk

\* the consumers of one never-available file are marked skipped: each leaves
\* ready, emits NotifySkip and hands its outputs to the propagation
RECURSIVE SkipConsumers(_, _, _, _, _)
SkipConsumers(cons, sk, rq, ev, files) ==
    IF cons = <<>> THEN [skipped |-> sk, ready |-> rq, events |-> ev, files |-> files]
    ELSE LET c == Head(cons) IN
         IF NewlySkipped(c, sk)
         THEN SkipConsumers(Tail(cons), sk \cup {c},
                            SelectSeq(rq, LAMBDA e : e # c),
                            ev \o IfSubscribed(callbacks.executions, "NotifySkip", c),
                            files \o Sorted(ExecOutputs(dag.executions[c])))
         ELSE SkipConsumers(Tail(cons), sk, rq, ev, files)

\* skip propagation, breadth first over the never-available files
RECURSIVE SkipPropagate(_, _, _, _)
SkipPropagate(files, sk, rq, ev) ==
    IF files = <<>> THEN [skipped |-> sk, ready |-> rq, events |-> ev]
    ELSE LET r == SkipConsumers(Consumers(dag, Head(files), NumExecutions(dag)),
                                sk, rq, ev, Tail(files))
         IN SkipPropagate(r.files, r.skipped, r.ready, r.events)

\* the status of a WorkerResult: success or not
Status == {"success", "failure"}

\* dispatch loop, steps 3 and 4: the result of the execution worker w runs
ExecutionResult(w, status) ==
    /\ pc = "scheduling"
    /\ workers[w] # Idle
    /\ LET exec_uuid == workers[w]
           outs == Sorted(ExecOutputs(dag.executions[exec_uuid]))
       IN
         LET d == DeliverOutputs(outs, pending_deps, ready, skipped)
             streamed == SelectSeq(outs, LAMBDA file : file \in callbacks.files)
             ev == events
                     \o [i \in 1..Len(streamed) |-> Event("ProvideFile", streamed[i])]
                     \o IfSubscribed(callbacks.executions, "NotifyDone", exec_uuid)
         IN /\ file_key' = file_key \cup ExecOutputs(dag.executions[exec_uuid])
            /\ pending_deps' = d.pending_deps
            /\ completed' = MapInsert(completed, exec_uuid, status)
            /\ workers' = [workers EXCEPT ![w] = Idle]
            /\ IF status = "success"
               THEN /\ ready' = d.ready
                    /\ events' = ev
                    /\ UNCHANGED skipped
               ELSE LET s == SkipPropagate(outs, skipped, d.ready, ev)
                    IN /\ ready' = s.ready
                       /\ events' = s.events
                       /\ skipped' = s.skipped
    /\ UNCHANGED <<dagVars, checkVars, first, clientVars, remoteVars, pc>>

\* a variant of AllSettled: the evaluation ends when nothing is ready
AllSettled_NoneReady == ready = <<>>

\* every execution is done, failed or skipped
AllSettled == \A e \in Executions(dag) : e \in DOMAIN completed \/ e \in skipped

\* termination: the coordinator sends Done
Finish ==
    /\ pc = "scheduling"
    /\ AllSettled
    /\ pc' = "sched_done"
    /\ events' = Append(events, Event("Done", 0))
    /\ UNCHANGED <<ready, pending_deps, file_key, workers, skipped, completed>>
    /\ UNCHANGED <<dagVars, checkVars, first, clientVars, remoteVars>>

SchedNext ==
    \/ Setup
    \/ Dispatch
    \/ \E w \in WorkerId, status \in Status : ExecutionResult(w, status)
    \/ Finish

SchedSpec == SchedInit /\ [][SchedNext]_vars

\* the evaluations in which no execution fails
SuccessNext ==
    \/ Setup
    \/ Dispatch
    \/ \E w \in WorkerId : ExecutionResult(w, "success")
    \/ Finish

\* the coordinator's task keeps running and every worker answers
SuccessSpec == SchedInit /\ [][SuccessNext]_vars /\ WF_vars(SuccessNext)

\* ----------------------------------------------- connect_to_remote_server
MaxAddrs == 3

\* The text of server_url, by its parts: the scheme before "://" ("none" when
\* the text has none), the userinfo before "@", whether the rest of the
\* authority can be parsed, and what follows the authority.
UrlText ==
    [scheme : {"none", "tcp", "http"},
     userinfo : {"", "secret", "user:secret"},
     wellformed : BOOLEAN,
     rest : {"", "/", "/x"}]

\* the schemes for which Url::parse turns an empty path into "/"
SpecialSchemes == {"http"}

\* Url::parse on a text that has a scheme: the path is what follows the
\* authority, except that a special scheme has at least "/"; the password is
\* what follows ':' in the userinfo
ParseUrl(text, scheme) ==
    IF ~text.wellformed THEN [kind |-> "ParseError"]
    ELSE [kind |-> "Url",
          scheme |-> scheme,
          password |-> IF text.userinfo = "user:secret"
                       THEN [kind |-> "Some", value |-> "secret"]
                       ELSE [kind |-> "None"],
          path |-> IF scheme \in SpecialSchemes /\ text.rest = "" THEN "/" ELSE text.rest]

\* let url = match Url::parse(..): a text without scheme is parsed again
\* behind "tcp://"
ParseServerUrl(text) ==
    IF text.scheme = "none" THEN ParseUrl(text, "tcp") ELSE ParseUrl(text, text.scheme)

\* what an attempt to connect can give
Outcome == {"ok", "io_error", "other_error"}

\* what the environment will answer: the resolution fails, or gives addresses
\* (numbered in resolution order) each with the outcome of connecting to it
Resolution ==
    {[kind |-> "ResolveError"]}
        \cup {[kind |-> "Addrs", outcomes |-> o] : o \in SeqsUpTo(Outcome, MaxAddrs)}

\* return Err(..) / bail!(..) / return Ok(x)
ConnectReturn(r) ==
    /\ pc' = "connect_returned"
    /\ connect_result' = r

ConnectErr(cause) == [kind |-> "Err", cause |-> cause]

\* a variant of IsEmpty: the empty list of addresses is not rejected
IsEmpty_Unchecked(addrs) == FALSE

\* server_addrs.is_empty()
IsEmpty(addrs) == addrs = <<>>

\* the call, up to the loop: parse, scheme, resolution, the two checks; a for
\* loop over no address falls through to the final statement
ConnectCall(text, env) ==
    /\ server_url' = text
    /\ resolved' = env
    /\ LET u == ParseServerUrl(text) IN
       IF u.kind = "ParseError"
       THEN /\ ConnectReturn(ConnectErr("parse"))
            /\ UNCHANGED <<url, server_addrs, password>>
       ELSE /\ url' = u
            /\ IF u.scheme # "tcp"
               THEN /\ ConnectReturn(ConnectErr("scheme"))
                    /\ UNCHANGED <<server_addrs, password>>
               ELSE IF env.kind = "ResolveError"
               THEN /\ ConnectReturn(ConnectErr("resolve"))
                    /\ UNCHANGED <<server_addrs, password>>
               ELSE /\ server_addrs' = [i \in 1..Len(env.outcomes) |-> i]
                    /\ password' = u.password
                    /\ IF IsEmpty(server_addrs')
                       THEN ConnectReturn(ConnectErr("no_address"))
                       ELSE IF u.path # ""
                       THEN ConnectReturn(ConnectErr("path"))
                       ELSE /\ pc' = IF server_addrs' = <<>> THEN "connect_bail"
                                    ELSE "connect_loop"
                            /\ UNCHANGED connect_result
    /\ UNCHANGED <<err, attempts>>
    /\ UNCHANGED <<dagVars, checkVars, first, clientVars, schedVars>>

\* a variant of EndsLoop: every error is followed by the next address
EndsLoop_Never(outcome) == FALSE

\* the error was not due to the network: break
EndsLoop(outcome) == outcome # "io_error"

\* a variant of RecordError: the first error recorded is kept
RecordError_KeepFirst(prev, server_addr, outcome) ==
    IF prev = Nothing THEN [kind |-> "Some", addr |-> server_addr, error |-> outcome]
    ELSE prev

\* err = Some(e), in both branches: the error of this attempt replaces the
\* one recorded before
RecordError(prev, server_addr, outcome) ==
    [kind |-> "Some", addr |-> server_addr, error |-> outcome]

\* one iteration of: for server_addr in server_addrs
Attempt ==
    /\ pc = "connect_loop"
    /\ server_addrs # <<>>
    /\ LET server_addr == Head(server_addrs)
           outcome == resolved.outcomes[server_addr]
       IN /\ attempts' = Append(attempts, [addr |-> server_addr,
                                           encrypted |-> password.kind = "Some"])
          /\ server_addrs' = Tail(server_addrs)
          /\ IF outcome = "ok"
             THEN /\ ConnectReturn([kind |-> "Ok", addr |-> server_addr])
                  /\ UNCHANGED err
             ELSE /\ err' = RecordError(err, server_addr, outcome)
                  /\ pc' = IF EndsLoop(outcome) \/ server_addrs' = <<>>
                           THEN "connect_bail" ELSE "connect_loop"
                  /\ UNCHANGED connect_result
    /\ UNCHANGED <<server_url, resolved, url, password>>
    /\ UNCHANGED <<dagVars, checkVars, first, clientVars, schedVars>>

\* bail!("Failed to connect to the server: {:?}", err.unwrap())
Bail ==
    /\ pc = "connect_bail"
    /\ IF err = Nothing
       THEN /\ pc' = "panic"
            /\ UNCHANGED connect_result
       ELSE ConnectReturn(ConnectErr([attempt |-> err.addr, error |-> err.error]))
    /\ UNCHANGED <<server_url, resolved, url, server_addrs, password, err, attempts>>
    /\ UNCHANGED <<dagVars, checkVars, first, clientVars, schedVars>>

ConnectCallNext ==
    /\ pc = "build"
    /\ \E text \in UrlText, env \in Resolution : ConnectCall(text, env)

ConnectNext ==
    \/ ConnectCallNext
    \/ Attempt
    \/ Bail

ConnectSpec == Init /\ [][ConnectNext]_vars

\* ------------------------------------------------------------ properties
\* C1: for every valid DAG (dependencies produced, one producer per file, no
\* cycle, subscriptions known) check_dag returns success.
C1_ValidDagAccepted ==
    (Returned /\ ValidDag(dag, callbacks)) => Returns("Ok")

C1_Witness ==
    /\ Returns("Ok")
    /\ ValidDag(dag, callbacks)
    /\ \E a, b \in Executions(dag) : a # b /\ ReadsFrom(dag, a, b)
    /\ dag.provided_files # {}
    /\ callbacks.files # {} /\ callbacks.executions # {}

\* C2: a DAG with a dependency cycle and no other defect is answered with
\* CycleDetected, whatever the visiting order.
C2_CycleDetected ==
    (Returned /\ HasCycle(dag) /\ DepsProduced(dag) /\ UniqueProducers(dag))
        => Returns("CycleDetected")

C2_Witness ==
    /\ Returns("CycleDetected")
    /\ DepsProduced(dag) /\ UniqueProducers(dag)
    /\ \E a, b \in Executions(dag) :
        a # b /\ ReadsFrom(dag, a, b) /\ ReadsFrom(dag, b, a)

\* C3: a DAG in which an execution has a dependency nobody produces (no cycle,
\* no duplicate) is answered with MissingFile, whatever the visiting order.
C3_MissingFileReported ==
    (Returned /\ ~DepsProduced(dag) /\ ~HasCycle(dag) /\ UniqueProducers(dag))
        => Returns("MissingFile")

\* C4: two add_execution calls with the same uuid, then check_dag on the
\* resulting data, give DuplicateExecutionUUID (stated for the DAGs in which
\* nothing else is wrong, so that no other error is due).
C4_DuplicateExecutionReported ==
    (Returned /\ dup_add /\ ValidDag(dag, callbacks))
        => Returns("DuplicateExecutionUUID")

\* C5: a file with two producers is answered with DuplicateFileUUID, whatever
\* else is wrong with the DAG and whatever the visiting order.
C5_DuplicateFileReported ==
    (Returned /\ ~UniqueProducers(dag)) => Returns("DuplicateFileUUID")

C5_Witness ==
    /\ Returns("DuplicateFileUUID")
    /\ \E f \in FileUuid : \E a, b \in Executions(dag) :
        /\ a # b
        /\ f \in ExecOutputs(dag.executions[a])
        /\ f \in ExecOutputs(dag.executions[b])
    /\ ~DepsProduced(dag)

\* C6 as stated: on a structurally valid DAG, MissingFile when an unknown file
\* is subscribed, MissingExecution when an unknown execution is subscribed,
\* success only when every subscribed uuid is known.
C6_AsStated ==
    (Returned /\ StructurallyValid(dag)) =>
        /\ pc = "done"
        /\ UnknownFileSubscribed(dag, callbacks) => result.variant = "MissingFile"
        /\ UnknownExecSubscribed(dag, callbacks) => result.variant = "MissingExecution"
        /\ result.variant = "Ok" => SubscriptionsKnown(dag, callbacks)

\* C6 amended: the files are checked first, so MissingExecution is the answer
\* when an unknown execution is subscribed and every subscribed file is known.
C6_SubscriptionsChecked ==
    (Returned /\ StructurallyValid(dag)) =>
        /\ pc = "done"
        /\ UnknownFileSubscribed(dag, callbacks) => result.variant = "MissingFile"
        /\ (UnknownExecSubscribed(dag, callbacks) /\ ~UnknownFileSubscribed(dag, callbacks))
               => result.variant = "MissingExecution"
        /\ result.variant = "Ok" => SubscriptionsKnown(dag, callbacks)

C6_Witness ==
    /\ Returns("MissingExecution")
    /\ StructurallyValid(dag)
    /\ Executions(dag) # {}
    /\ callbacks.files # {}
    /\ UnknownExecSubscribed(dag, callbacks)
    /\ ~UnknownFileSubscribed(dag, callbacks)

\* C7: when check_dag returns success the DAG satisfies every structural
\* invariant and every subscribed uuid is known.
C7_AcceptedIsValid ==
    Returns("Ok") => ValidDag(dag, callbacks)

C7_Witness ==
    /\ Returns("Ok")
    /\ \E e \in Executions(dag) :
        /\ Len(ExecDependencies(dag.executions[e])) = 2
        /\ ExecOutputs(dag.executions[e]) # {}
    /\ callbacks.files # {}

\* C9: check_dag is total: no expect() or assert_ne!() fails, no execution
\* enters ready_execs twice, and once called it returns.
C9_Total ==
    /\ [](pc # "panic" /\ \A e \in ExecutionUuid : pushes[e] <= 1)
    /\ (pc # "build") ~> (pc = "done")

C9_Witness ==
    /\ pc = "done"
    /\ \E e \in Executions(dag) :
        LET deps == ExecDependencies(dag.executions[e])
        IN Len(deps) = 2 /\ deps[1] = deps[2] /\ pushes[e] = 1

\* C8: two calls of check_dag on the same DAG data and subscription set, which
\* differ only in the iteration orders, return the same variant.
C8_SameVariantTwice ==
    (Returned /\ first # "none") => Returns(first)

\* C10: during one call of evaluate each callback of each execution is called
\* at most once, whatever the server sends.
C10_CallbacksAtMostOnce ==
    \A e \in ExecutionUuid :
        calls[e].on_start <= 1 /\ calls[e].on_done <= 1 /\ calls[e].on_skip <= 1

\* ------------------------------------------------ ExecutorClient claims
\* evaluate has sent its first message and is in its loop, or is past it
Evaluating == pc \in {"evaluate", "returned", "panic"} /\ sent # <<>>

\* C11: the first message the client sends is Evaluate, with the DAG data and
\* the subscription set (the uuids that have a callback entry); no other
\* message comes before it and no second Evaluate after it.
C11_EvaluateFirstOnce ==
    sent # <<>> =>
        /\ sent[1].type = "Evaluate"
        /\ sent[1].dag = dag
        /\ sent[1].callbacks.executions = DOMAIN execution_callbacks
        /\ sent[1].callbacks.files = DOMAIN file_callbacks
        /\ \A i \in 2..Len(sent) : sent[i].type # "Evaluate"

C11_Witness ==
    /\ Len(sent) >= 3
    /\ sent[1].type = "Evaluate"
    /\ sent[1].dag.provided_files # {}
    /\ sent[1].callbacks.executions # {}

\* the types and uuids of what the client sent after Evaluate
SentAfterEvaluate == [i \in 1..(Len(sent) - 1) |-> <<sent[i + 1].type, sent[i + 1].uuid>>]

\* the replies due for the AskFile messages `uuids`, in order
RECURSIVE Replies(_)
Replies(uuids) ==
    IF uuids = <<>> THEN <<>>
    ELSE <<<<"ProvideFile", Head(uuids)>>, <<"FileBytes", Head(uuids)>>>>
             \o Replies(Tail(uuids))

C13_ClosedBeforeDoneFails ==
    pc = "returned" =>
        /\ last = "Done" => eval_result = "Ok"
        /\ last = "Closed" => eval_result = "Err"

\* the first min(limit, Len(file)) bytes of file
Prefix(file, limit) == SubSeq(file, 1, IF limit < Len(file) THEN limit ELSE Len(file))

\* C14: the get_content callback of a delivered file is called with the first
\* min(limit, file length) bytes of the file the server delivered.
C14_ContentIsPrefix ==
    \A i \in 1..Len(delivered) :
        delivered[i].content = Prefix(delivered[i].file, delivered[i].limit)

\* C21: once the client has handled ProvideFile it has consumed the Chunk
\* frames and the ChunkEnd frame that follow it, so every frame it decodes as
\* a server message is a server message, never a frame of a file stream.
C21_StreamConsumedWithFile ==
    /\ (pc = "evaluate" /\ last = "ProvideFile" /\ read_frame = "Message")
           => stream = <<>>
    /\ read_frame \in {"None", "Message"}

\* C22: evaluate stays in its loop until the server ends the computation: it
\* has left the loop only when the last thing received is Done, Error or the
\* closing of the channel, never while AskFile, ProvideFile, NotifyStart,
\* NotifyDone, NotifySkip, Status or another receive error is what arrived.
C22_ReturnsOnlyWhenServerEnds ==
    (sent # <<>> /\ pc \in {"returned", "panic"}) => last \in {"Done", "Error", "Closed"}

\* -------------------------------------------------------- builder claims
CallbackKind == {"on_start", "on_done", "on_skip"}

\* the callback of `kind` the map cbs holds for uuid; None when it holds none
InstalledCallback(cbs, uuid, kind) ==
    IF uuid \in DOMAIN cbs THEN cbs[uuid][kind] ELSE NoCallback

\* this step installs `callback` as the `kind` callback of uuid and changes
\* nothing else of the ExecutionDAG
Installs(uuid, kind, callback) ==
    /\ InstalledCallback(execution_callbacks', uuid, kind) = callback
    /\ \A e \in ExecutionUuid, k \in CallbackKind :
           <<e, k>> # <<uuid, kind>> =>
               InstalledCallback(execution_callbacks', e, k)
                   = InstalledCallback(execution_callbacks, e, k)
    /\ file_callbacks' = file_callbacks
    /\ dag' = dag

\* C23: on_start, on_done and on_skip on the handle of an execution set the
\* callback of their kind for that execution to the one given, whatever was
\* installed before (last write wins), and leave unchanged the callbacks of
\* the other two kinds, the callbacks of the other executions, the file
\* callbacks and the DAG data.
C23_InstallReplacesOneKind ==
    [][\A uuid \in ExecutionUuid, callback \in CallbackId :
           /\ on_start(uuid, callback) => Installs(uuid, "on_start", callback)
           /\ on_done(uuid, callback) => Installs(uuid, "on_done", callback)
           /\ on_skip(uuid, callback) => Installs(uuid, "on_skip", callback)]_vars

\* three builder calls: add_execution, then on_start twice on its handle, the
\* second time with callback 2
C23_Witness ==
    /\ built = 3
    /\ ~dup_add
    /\ dag.provided_files = {} /\ file_callbacks = EmptyMap
    /\ \E uuid \in ExecutionUuid :
           /\ DOMAIN dag.executions = {uuid}
           /\ DOMAIN execution_callbacks = {uuid}
           /\ execution_callbacks[uuid] = [DefaultExecutionCallbacks EXCEPT !.on_start = 2]

\* the executions for which at least one of on_start, on_done, on_skip is
\* installed
WithExecutionCallback ==
    {e \in ExecutionUuid :
        \E k \in CallbackKind : InstalledCallback(execution_callbacks, e, k) # NoCallback}

\* the files for which write_file_to or get_file_content was called
WithFileCallback ==
    {f \in FileUuid :
        /\ f \in DOMAIN file_callbacks
        /\ file_callbacks[f].write_to \/ file_callbacks[f].get_content # NoCallback}

\* C24: the subscription set of the Evaluate message holds exactly the
\* executions that have at least one callback installed and exactly the files
\* that have write_file_to or get_file_content bound; an execution that was
\* only added and a file that was only provided are not in it.
C24_SubscribedIffCallback ==
    sent # <<>> =>
        /\ sent[1].callbacks.executions = WithExecutionCallback
        /\ sent[1].callbacks.files = WithFileCallback

\* two executions added, a callback installed for one of them only, Evaluate
\* sent
C24_Witness ==
    /\ sent # <<>>
    /\ DOMAIN sent[1].dag.executions = ExecutionUuid
    /\ sent[1].callbacks.executions = {2}
    /\ execution_callbacks[2].on_skip # NoCallback

\* ------------------------------------------------------ Scheduler claims
\* the executions that read, directly or through other executions, an output
\* of one of S
RECURSIVE ReachableFrom(_, _)
ReachableFrom(d, S) ==
    LET T == S \cup {c \in Executions(d) : \E e \in S : ReadsFrom(d, c, e)}
    IN IF T = S THEN S ELSE ReachableFrom(d, T)

Downstream(d, e) == ReachableFrom(d, {c \in Executions(d) : ReadsFrom(d, c, e)})

\* how many times the coordinator sent the message
Count(type, uuid) == Cardinality({i \in DOMAIN events : events[i] = Event(type, uuid)})

\* where the message was sent first (0: never)
Position(type, uuid) ==
    IF Count(type, uuid) = 0 THEN 0
    ELSE CHOOSE i \in DOMAIN events :
            /\ events[i] = Event(type, uuid)
            /\ \A j \in 1..(i - 1) : events[j] # Event(type, uuid)

Failed == {e \in DOMAIN completed : completed[e] = "failure"}

\* C15: once an execution has failed, every execution downstream of it is
\* marked skipped and NotifySkip was sent for it exactly once when it is
\* subscribed (never otherwise), whatever the number of paths that lead to it
\* and whatever its other dependencies do later.
C15_SkipPropagated ==
    /\ \A e \in Failed : \A c \in Downstream(dag, e) :
           /\ c \in skipped
           /\ Count("NotifySkip", c) = IF c \in callbacks.executions THEN 1 ELSE 0
    /\ \A c \in Executions(dag) : Count("NotifySkip", c) <= 1

C15_Witness ==
    /\ pc = "sched_done"
    /\ \E c, e, x \in Executions(dag) :
        /\ e \in Failed /\ x \in Failed /\ e # x
        /\ ReadsFrom(dag, c, e) /\ ReadsFrom(dag, c, x)
        /\ Count("NotifySkip", c) = 1

\* the lifecycle messages sent for an execution, in order
Lifecycle(e) ==
    LET notify == SelectSeq(events, LAMBDA m :
                      m.uuid = e /\ m.type \in {"NotifyStart", "NotifyDone", "NotifySkip"})
    IN [i \in 1..Len(notify) |-> notify[i].type]

\* C16: for every execution the client sees NotifyStart then NotifyDone, or
\* NotifySkip, never both and none twice; an execution that was skipped is
\* never given to a worker, also when its pending count reaches zero later.
C16_StartDoneOrSkip ==
    \A e \in Executions(dag) :
        /\ Lifecycle(e) \in {<<>>, <<"NotifyStart">>, <<"NotifyStart", "NotifyDone">>,
                             <<"NotifySkip">>}
        /\ e \in skipped =>
              /\ e \notin DOMAIN completed
              /\ \A w \in DOMAIN workers : workers[w] # e
              /\ e \notin Range(ready)

C16_Witness ==
    /\ pc = "sched_done"
    /\ \E c, x \in Executions(dag) :
        /\ c \in skipped /\ c \in callbacks.executions
        /\ pending_deps[c] = 0
        /\ x \in callbacks.executions
        /\ x \in DOMAIN completed /\ completed[x] = "success"
        /\ ReadsFrom(dag, c, x)
        /\ Position("NotifySkip", c) < Position("NotifyDone", x)

\* C17: in the evaluations in which no execution fails (SuccessSpec), the
\* evaluation ends with Done, and by then the client was sent one NotifyDone
\* for each of the N subscribed executions and no NotifySkip.
C17_AllDoneNoSkip ==
    /\ [](pc = "sched_done" =>
             /\ events[Len(events)] = Event("Done", 0)
             /\ Count("Done", 0) = 1
             /\ \A e \in Executions(dag) :
                    /\ Count("NotifyDone", e) = IF e \in callbacks.executions THEN 1 ELSE 0
                    /\ Count("NotifySkip", e) = 0)
    /\ <>(pc = "sched_done")

C17_Witness ==
    /\ pc = "sched_done" /\ DOMAIN completed = Executions(dag)
    /\ NumExecutions(dag) = 3 /\ callbacks.executions = Executions(dag)
    /\ \E a, b \in Executions(dag) : ReadsFrom(dag, a, b)

\* ---------------------------------------- connect_to_remote_server claims
ConnectReturned == pc = "connect_returned"

\* the outcome of the i-th attempt made
OutcomeOf(i) == resolved.outcomes[attempts[i].addr]

\* C18: an attempt that fails with an I/O error is followed by an attempt on
\* the next resolved address when one remains; an attempt that fails with any
\* other error is the last one, and the function returns an error.
C18_RetryOnIoErrorOnly ==
    ConnectReturned =>
        \A i \in 1..Len(attempts) :
            /\ (OutcomeOf(i) = "io_error" /\ attempts[i].addr < Len(resolved.outcomes))
                   => /\ i < Len(attempts)
                      /\ attempts[i + 1].addr = attempts[i].addr + 1
            /\ OutcomeOf(i) = "other_error"
                   => /\ i = Len(attempts)
                      /\ connect_result.kind = "Err"

C18_Witness ==
    /\ ConnectReturned
    /\ resolved.kind = "Addrs"
    /\ Len(resolved.outcomes) = 3
    /\ Len(attempts) = 2
    /\ OutcomeOf(1) = "io_error" /\ OutcomeOf(2) = "other_error"
    /\ connect_result.kind = "Err"

\* the scheme the text names (tcp when it names none)
SchemeOf(text) == IF text.scheme = "none" THEN "tcp" ELSE text.scheme

RejectedFor(cause) == connect_result = ConnectErr(cause)

\* C19: a URL whose scheme is not tcp, and a URL with a non-empty path, is
\* rejected with an error before any connection attempt; a URL of the form
\* tcp://[password@]host[:port][/], whose path is empty or the trailing '/',
\* is not rejected for its path.
C19_SchemeAndPathChecked ==
    ConnectReturned =>
        /\ (SchemeOf(server_url) # "tcp" \/ server_url.rest = "/x")
               => connect_result.kind = "Err" /\ attempts = <<>>
        /\ (SchemeOf(server_url) = "tcp" /\ server_url.rest \in {"", "/"})
               => ~RejectedFor("path")

\* C25: the addresses are attempted in their resolution order, from the
\* first, each at most once; no attempt follows one that succeeded, and the
\* channel returned is the one of that attempt; when no attempt succeeds the
\* error returned is the error of the last attempt made.
C25_InOrderLastErrorReturned ==
    /\ \A i \in 1..Len(attempts) :
           /\ attempts[i].addr = i
           /\ i < Len(attempts) => OutcomeOf(i) # "ok"
    /\ (ConnectReturned /\ attempts # <<>>) =>
           LET n == Len(attempts) IN
           IF OutcomeOf(n) = "ok"
           THEN connect_result = [kind |-> "Ok", addr |-> attempts[n].addr]
           ELSE connect_result =
                    ConnectErr([attempt |-> attempts[n].addr, error |-> OutcomeOf(n)])

C25_Witness ==
    /\ ConnectReturned
    /\ Len(attempts) = 3
    /\ OutcomeOf(1) = "io_error" /\ OutcomeOf(2) = "io_error"
    /\ OutcomeOf(3) = "other_error"
    /\ connect_result = ConnectErr([attempt |-> 3, error |-> "other_error"])

\* C26: when the final statement is reached at least one attempt was made and
\* the last one failed, so err holds an error and err.unwrap() does not panic;
\* an empty list of resolved addresses is rejected before the loop, with its
\* own error and without any attempt.
C26_UnwrapNeverPanics ==
    /\ pc # "panic"
    /\ pc = "connect_bail" =>
           /\ attempts # <<>>
           /\ OutcomeOf(Len(attempts)) # "ok"
           /\ err # Nothing
    /\ (ConnectReturned /\ resolved.kind = "Addrs" /\ resolved.outcomes = <<>>
           /\ url # Nothing /\ url.scheme = "tcp") =>
           RejectedFor("no_address") /\ attempts = <<>>

C26_Witness ==
    /\ pc = "connect_bail"
    /\ Len(attempts) = 2
    /\ err = [kind |-> "Some", addr |-> 2, error |-> "io_error"]

\* ------------------------------------------------ check_dag, what is left
\* the execution reads, directly or through other executions, its own output
OnCycle(d, e) == e \in Downstream(d, e)

\* the execution has a dependency that nobody produces
HasMissingDependency(d, e) == ~(Range(ExecDependencies(d.executions[e])) \subseteq Produced(d))

\* C20: the execution CycleDetected reports is on a dependency cycle, and every
\* execution left with a pending count above zero when the traversal ends is
\* itself on a cycle or itself has a dependency that nobody produces.
C20_PendingIsOnCycleOrMissing ==
    /\ Returns("CycleDetected") => OnCycle(dag, result.description)
    /\ pc = "classify" =>
           \A e \in Unreached(num_dependencies) :
               OnCycle(dag, e) \/ HasMissingDependency(dag, e)

=============================================================================
